---- MODULE Spec2Model ----
(***************************************************************************)
(* Model of generate.py, the random Gaussian cluster generator.            *)
(*                                                                         *)
(* One process executes run(): it seeds the shared random source, samples  *)
(* the clusters (generate_clusters / generate_cluster), flattens them,     *)
(* writes the points file and the centroids file, prints the summary and   *)
(* optionally plots.  The same command line may then be started a second   *)
(* time as a fresh process (files stay on disk, memory does not).          *)
(*                                                                         *)
(* Numbers.  Integers are Python integers.  Floats (sigma, the Gaussian    *)
(* samples) are fixed-point: the integer v stands for the value v / Scale. *)
(* The random source is a small multiplicative congruential generator      *)
(* standing for the Mersenne Twister behind random.seed / randint /        *)
(* uniform / gauss: one state, advanced once per draw.                     *)
(***************************************************************************)
EXTENDS Integers, Sequences, FiniteSets

\* ------------------------------------------------------------ bounds
\* Largest --num-clusters tried (the smallest is -1).
MaxClusters == 2
\* Largest --min-points / --max-points tried (the smallest is -1).
MaxPoints == 1
\* Largest --seed tried (the smallest is 0).
MaxSeed == 2
\* Fixed-point resolution of floats: v stands for v / Scale.
Scale == 2
\* The standard normal deviate behind gauss() ranges over -ZMax..ZMax.
ZMax == 3

\* Values tried for --min-x/--max-x, --min-y/--max-y (integers) and for
\* --min-sigma/--max-sigma (fixed-point floats).
XArgs == {-1, 0}
YArgs == {0, 1}
SigmaArgs == {0, 1}

VARIABLES
    args,           \* the parsed command line (argparse namespace)
    rng,            \* state of the shared random source
    pc,             \* position of the process in run() / generate_clusters
    error,          \* exception raised in run(), or "none"
    failed_at,      \* the statement that raised it, or "none"
    limits,         \* the limits dict run() passes to generate_clusters
    i,              \* iterations of the cluster loop started so far
    mean,           \* mean of the cluster being generated
    sigma,          \* sigma of the cluster being generated
    num_points,     \* num_points argument of the current generate_cluster call
    cur,            \* the list generate_cluster is building
    px,             \* first component of the tuple being built
    clusters,       \* generate_clusters: clusters
    ground_truth,   \* generate_clusters: ground_truth
    points,         \* run: points (flat)
    centroids,      \* run: centroids
    points_file,    \* lines of args.points_file on disk
    centroids_file, \* lines of args.centroids_file on disk
    open_files,     \* file handles currently open
    console,        \* what has been printed
    plotted,        \* TRUE iff pyplot.show() was reached
    trace,          \* log of the steps and draws of this process
    run_no,         \* 1 for the first process, 2 for the second
    prev_output     \* the files the first process left, once it completed

vars == <<args, rng, pc, error, failed_at, limits, i, mean, sigma,
          num_points, cur, px, clusters, ground_truth, points, centroids, points_file,
          centroids_file, open_files, console, plotted, trace, run_no,
          prev_output>>

\* ------------------------------------------------------------ helpers
Min(a, b) == IF a <= b THEN a ELSE b

\* Position of e in the sequence s (0 if absent).
IndexOf(s, e) == IF \E k \in 1..Len(s) : s[k] = e
                 THEN CHOOSE k \in 1..Len(s) : s[k] = e /\ \A j \in 1..(k-1) : s[j] # e
                 ELSE 0

\* ------------------------------------------------------------ random source
\* The states of the generator are 1..10.  A process that has not called
\* seed() holds a state taken from OS entropy.
Entropy == {5, 9}

\* random.seed(a): the state is a function of a alone.
seed_ignored(a) == rng
seed(a) == 1 + (a % 10)

\* One step of the generator; the new state is also the raw output.
advance(r) == (7 * r) % 11

\* random.randint(a, b) on raw output r: a + randbelow(b - a + 1).
\* Defined only for a <= b (empty range raises ValueError).
randint_off_by_one(a, b, r) == a + (r % (b - a + 2))
randint(a, b, r) == a + (r % (b - a + 1))

\* random.uniform(a, b) = a + (b - a) * random(), random() = (r - 1) / 10,
\* rounded to the nearest representable value (a, b and the result fixed-point).
uniform(a, b, r) == a + ((2 * (b - a) * (r - 1) + 10) \div 20)

\* random.gauss(mu, sigma) = mu + z * sigma with z the normal deviate drawn
\* from r; mu is an integer, sigma and the result are fixed-point.
gauss(mu, sg, r) == mu * Scale + ((r % (2 * ZMax + 1)) - ZMax) * sg

\* int(v) of a float: truncation toward zero.
int_floor(v) == v \div Scale
int(v) == IF v >= 0 THEN v \div Scale ELSE -((-v) \div Scale)

\* ------------------------------------------------------------ formatting
Digit(d) == <<"0", "1", "2", "3", "4", "5", "6", "7", "8", "9">>[d + 1]

RECURSIVE Digits(_)
Digits(n) == IF n < 10 THEN <<Digit(n)>>
             ELSE Digits(n \div 10) \o <<Digit(n % 10)>>

\* str(n) of an integer: its decimal form, as a sequence of characters.
str(n) == IF n < 0 THEN <<"-">> \o Digits(-n) ELSE Digits(n)

\* " ".join(str(component) for component in point), for a pair.
join(point) == str(point[1]) \o <<" ">> \o str(point[2])

\* The lines write_points_to_file prints for a list of points.
write_points_to_file(ps) == [k \in 1..Len(ps) |-> join(ps[k])]

\* ------------------------------------------------------------ run(): data
\* The limits dict built in run().
limits_unnormalized(a) ==
    [min_points |-> a.min_points, max_points |-> a.max_points,
     min_x |-> a.min_x, max_x |-> a.max_x,
     min_y |-> a.min_y, max_y |-> a.max_y,
     min_sigma |-> a.min_sigma, max_sigma |-> a.max_sigma]
Limits(a) ==
    [min_points |-> Min(a.min_points, a.max_points), max_points |-> a.max_points,
     min_x |-> Min(a.min_x, a.max_x), max_x |-> a.max_x,
     min_y |-> Min(a.min_y, a.max_y), max_y |-> a.max_y,
     min_sigma |-> Min(a.min_sigma, a.max_sigma), max_sigma |-> a.max_sigma]

\* points = [point for cluster in clusters for point in cluster]
RECURSIVE FlattenFrom(_, _)
FlattenFrom(cs, k) == IF k > Len(cs) THEN <<>> ELSE cs[k] \o FlattenFrom(cs, k + 1)
RECURSIVE FlattenReversed(_)
FlattenReversed(cs) == IF cs = <<>> THEN <<>>
                       ELSE FlattenReversed(Tail(cs)) \o Head(cs)
Flatten(cs) == FlattenFrom(cs, 1)

\* centroids = [cluster_data['mean'] for cluster_data in ground_truth]
Centroids(gt) == [k \in 1..Len(gt) |-> gt[k].mean]

\* The statements of run(), in program order.
PipelineCentroidsFirst ==
    <<"seed", "generate", "flatten",
      "open_centroids", "write_centroids", "close_centroids",
      "open_points", "write_points", "close_points",
      "print_parameters", "print_ground_truth", "show_plot">>
Pipeline ==
    <<"seed", "generate", "flatten",
      "open_points", "write_points", "close_points",
      "open_centroids", "write_centroids", "close_centroids",
      "print_parameters", "print_ground_truth", "show_plot">>

\* The statement after s in run(); "done" after the last.
Following(s) == IF IndexOf(Pipeline, s) < Len(Pipeline)
                THEN Pipeline[IndexOf(Pipeline, s) + 1] ELSE "done"

\* The parameter draws of one iteration of generate_clusters, in evaluation
\* order: the mean tuple, then sigma, then the num_points argument.
DrawOrderPointsFirst == <<"num_points", "mean_x", "mean_y", "sigma">>
DrawOrder == <<"mean_x", "mean_y", "sigma", "num_points">>

\* What follows parameter draw d: the next draw, or the generate_cluster call.
AfterDraw(d) == IF IndexOf(DrawOrder, d) < Len(DrawOrder)
                THEN DrawOrder[IndexOf(DrawOrder, d) + 1] ELSE "gauss_x"

\* for _ in range(num_clusters): is there another iteration after k?
MoreClustersInclusive(k, n) == k <= n
MoreClusters(k, n) == k < n

\* A log entry: a statement of run() (cluster 0) or a draw of cluster c.
Entry(op, c, raw) == [op |-> op, cluster |-> c, raw |-> raw]
Log(op) == Append(trace, Entry(op, 0, 0))
LogDraw(op, raw) == Append(trace, Entry(op, i, raw))

\* ------------------------------------------------------------ initial state
ArgSpace ==
    [seed : 0..MaxSeed,
     num_clusters : -1..MaxClusters,
     min_points : -1..MaxPoints, max_points : -1..MaxPoints,
     min_x : XArgs, max_x : XArgs,
     min_y : YArgs, max_y : YArgs,
     min_sigma : SigmaArgs, max_sigma : SigmaArgs]

NoLimits == [min_points |-> 0, max_points |-> 0, min_x |-> 0, max_x |-> 0,
             min_y |-> 0, max_y |-> 0, min_sigma |-> 0, max_sigma |-> 0]

\* The memory of a process that has just parsed its arguments.
FreshMemory ==
    /\ pc = "seed"
    /\ error = "none"
    /\ failed_at = "none"
    /\ limits = NoLimits
    /\ i = 0
    /\ mean = <<0, 0>>
    /\ sigma = 0
    /\ num_points = 0
    /\ cur = <<>>
    /\ px = 0
    /\ clusters = <<>>
    /\ ground_truth = <<>>
    /\ points = <<>>
    /\ centroids = <<>>
    /\ open_files = {}
    /\ console = <<>>
    /\ plotted = FALSE
    /\ trace = <<>>

Init ==
    /\ args \in ArgSpace
    /\ rng \in Entropy
    /\ FreshMemory
    /\ points_file = <<>>
    /\ centroids_file = <<>>
    /\ run_no = 1
    /\ prev_output = [ok |-> FALSE, points |-> <<>>, centroids |-> <<>>]

\* ------------------------------------------------------------ run(): steps
\* Where control goes when statement s raises: run() has no handler, so the
\* exception leaves run() and the process ends.
PropagateSwallowed(s) ==
    IF s \in {"open_points", "write_points"} THEN "open_centroids"
    ELSE "print_parameters"
Propagate(s) == "failed"

\* seed(args.seed)
Seed ==
    /\ pc = "seed"
    /\ rng' = seed(args.seed)
    /\ trace' = Log("seed")
    /\ pc' = Following("seed")
    /\ UNCHANGED <<args, error, failed_at, limits, i, mean, sigma,
                   num_points, cur, px, clusters, ground_truth, points,
                   centroids, points_file, centroids_file, open_files,
                   console, plotted, run_no, prev_output>>

\* generate_clusters(args.num_clusters, limits={...}): the call
CallGenerateClusters ==
    /\ pc = "generate"
    /\ limits' = Limits(args)
    /\ clusters' = <<>>
    /\ ground_truth' = <<>>
    /\ i' = 0
    /\ trace' = Log("generate")
    /\ pc' = "loop"
    /\ UNCHANGED <<args, rng, error, failed_at, mean, sigma,
                   num_points, cur, px, points, centroids, points_file,
                   centroids_file, open_files, console, plotted, run_no,
                   prev_output>>

\* for _ in range(num_clusters): next iteration, or return
LoopHead ==
    /\ pc = "loop"
    /\ IF MoreClusters(i, args.num_clusters)
       THEN /\ i' = i + 1
            /\ pc' = DrawOrder[1]
            /\ trace' = trace
       ELSE /\ i' = i
            /\ pc' = Following("generate")
            /\ trace' = Log("return")
    /\ UNCHANGED <<args, rng, error, failed_at, limits, mean, sigma,
                   num_points, cur, px, clusters, ground_truth, points,
                   centroids, points_file, centroids_file, open_files,
                   console, plotted, run_no, prev_output>>

\* randint(limits["min_x"], limits["max_x"])
DrawMeanX ==
    /\ pc = "mean_x"
    /\ IF limits.min_x <= limits.max_x
       THEN /\ rng' = advance(rng)
            /\ mean' = [mean EXCEPT ![1] = randint(limits.min_x, limits.max_x, rng')]
            /\ trace' = LogDraw("mean_x", mean'[1])
            /\ pc' = AfterDraw("mean_x")
            /\ UNCHANGED <<error, failed_at>>
       ELSE /\ error' = "ValueError"
            /\ failed_at' = "generate"
            /\ pc' = Propagate("generate")
            /\ UNCHANGED <<rng, mean, trace>>
    /\ UNCHANGED <<args, limits, i, sigma, num_points, cur, px,
                   clusters, ground_truth, points, centroids, points_file,
                   centroids_file, open_files, console, plotted, run_no,
                   prev_output>>

\* randint(limits["min_y"], limits["max_y"])
DrawMeanY ==
    /\ pc = "mean_y"
    /\ IF limits.min_y <= limits.max_y
       THEN /\ rng' = advance(rng)
            /\ mean' = [mean EXCEPT ![2] = randint(limits.min_y, limits.max_y, rng')]
            /\ trace' = LogDraw("mean_y", mean'[2])
            /\ pc' = AfterDraw("mean_y")
            /\ UNCHANGED <<error, failed_at>>
       ELSE /\ error' = "ValueError"
            /\ failed_at' = "generate"
            /\ pc' = Propagate("generate")
            /\ UNCHANGED <<rng, mean, trace>>
    /\ UNCHANGED <<args, limits, i, sigma, num_points, cur, px,
                   clusters, ground_truth, points, centroids, points_file,
                   centroids_file, open_files, console, plotted, run_no,
                   prev_output>>

\* sigma = uniform(limits["min_sigma"], limits["max_sigma"])
DrawSigma ==
    /\ pc = "sigma"
    /\ rng' = advance(rng)
    /\ sigma' = uniform(limits.min_sigma, limits.max_sigma, rng')
    /\ trace' = LogDraw("sigma", sigma')
    /\ pc' = AfterDraw("sigma")
    /\ UNCHANGED <<args, error, failed_at, limits, i, mean,
                   num_points, cur, px, clusters, ground_truth, points,
                   centroids, points_file, centroids_file, open_files,
                   console, plotted, run_no, prev_output>>

\* num_points=randint(limits["min_points"], limits["max_points"])
DrawNumPoints ==
    /\ pc = "num_points"
    /\ IF limits.min_points <= limits.max_points
       THEN /\ rng' = advance(rng)
            /\ num_points' = randint(limits.min_points, limits.max_points, rng')
            /\ trace' = LogDraw("num_points", num_points')
            /\ pc' = AfterDraw("num_points")
            /\ UNCHANGED <<error, failed_at>>
       ELSE /\ error' = "ValueError"
            /\ failed_at' = "generate"
            /\ pc' = Propagate("generate")
            /\ UNCHANGED <<rng, num_points, trace>>
    /\ UNCHANGED <<args, limits, i, mean, sigma, cur, px, clusters,
                   ground_truth, points, centroids, points_file,
                   centroids_file, open_files, console, plotted, run_no,
                   prev_output>>

\* generate_cluster: int(gauss(mean_x, sigma)) of the next tuple
GaussX ==
    /\ pc = "gauss_x"
    /\ Len(cur) < num_points
    /\ rng' = advance(rng)
    /\ px' = int(gauss(mean[1], sigma, rng'))
    /\ trace' = LogDraw("gauss_x", gauss(mean[1], sigma, rng'))
    /\ pc' = "gauss_y"
    /\ UNCHANGED <<args, error, failed_at, limits, i, mean, sigma,
                   num_points, cur, clusters, ground_truth, points, centroids,
                   points_file, centroids_file, open_files, console, plotted,
                   run_no, prev_output>>

\* generate_cluster: int(gauss(mean_y, sigma)), completing the tuple
GaussY ==
    /\ pc = "gauss_y"
    /\ rng' = advance(rng)
    /\ cur' = Append(cur, <<px, int(gauss(mean[2], sigma, rng'))>>)
    /\ trace' = LogDraw("gauss_y", gauss(mean[2], sigma, rng'))
    /\ pc' = "gauss_x"
    /\ UNCHANGED <<args, error, failed_at, limits, i, mean, sigma,
                   num_points, px, clusters, ground_truth, points, centroids,
                   points_file, centroids_file, open_files, console, plotted,
                   run_no, prev_output>>

\* generate_cluster returns; clusters.append(points); ground_truth.append({...})
AppendCluster ==
    /\ pc = "gauss_x"
    /\ Len(cur) >= num_points
    /\ clusters' = Append(clusters, cur)
    /\ ground_truth' = Append(ground_truth,
                              [mean |-> mean, sigma |-> sigma, n |-> Len(cur)])
    /\ cur' = <<>>
    /\ pc' = "loop"
    /\ UNCHANGED <<args, rng, error, failed_at, limits, i, mean,
                   sigma, num_points, px, points, centroids, points_file,
                   centroids_file, open_files, console, plotted, trace,
                   run_no, prev_output>>

\* points = [...]; centroids = [...]
FlattenClusters ==
    /\ pc = "flatten"
    /\ points' = Flatten(clusters)
    /\ centroids' = Centroids(ground_truth)
    /\ trace' = Log("flatten")
    /\ pc' = Following("flatten")
    /\ UNCHANGED <<args, rng, error, failed_at, limits, i, mean,
                   sigma, num_points, cur, px, clusters, ground_truth,
                   points_file, centroids_file, open_files, console, plotted,
                   run_no, prev_output>>

\* with open(args.points_file, "wt") as file: the open
OpenPointsFile ==
    /\ pc = "open_points"
    /\ trace' = Log("open_points")
    /\ \/ /\ open_files' = open_files \cup {"points"}
          /\ points_file' = <<>>
          /\ pc' = Following("open_points")
          /\ UNCHANGED <<error, failed_at>>
       \/ /\ error' = "IOError"
          /\ failed_at' = "open_points"
          /\ pc' = Propagate("open_points")
          /\ UNCHANGED <<open_files, points_file>>
    /\ UNCHANGED <<args, rng, limits, i, mean, sigma, num_points, cur,
                   px, clusters, ground_truth, points, centroids,
                   centroids_file, console, plotted, run_no, prev_output>>

\* write_points_to_file(points, file); a failing print leaves the lines
\* written so far, and the with statement closes the file as the error leaves
WritePoints ==
    /\ pc = "write_points"
    /\ trace' = Log("write_points")
    /\ \/ /\ points_file' = write_points_to_file(points)
          /\ pc' = Following("write_points")
          /\ UNCHANGED <<error, failed_at, open_files>>
       \/ /\ \E k \in 0..Len(points) :
                points_file' = SubSeq(write_points_to_file(points), 1, k)
          /\ open_files' = open_files \ {"points"}
          /\ error' = "IOError"
          /\ failed_at' = "write_points"
          /\ pc' = Propagate("write_points")
    /\ UNCHANGED <<args, rng, limits, i, mean, sigma, num_points, cur,
                   px, clusters, ground_truth, points, centroids,
                   centroids_file, console, plotted, run_no, prev_output>>

\* end of the first with block: the points file is closed
ClosePointsFile ==
    /\ pc = "close_points"
    /\ open_files' = open_files \ {"points"}
    /\ trace' = Log("close_points")
    /\ pc' = Following("close_points")
    /\ UNCHANGED <<args, rng, error, failed_at, limits, i, mean,
                   sigma, num_points, cur, px, clusters, ground_truth, points,
                   centroids, points_file, centroids_file, console, plotted,
                   run_no, prev_output>>

\* with open(args.centroids_file, "wt") as file: the open
OpenCentroidsFile ==
    /\ pc = "open_centroids"
    /\ trace' = Log("open_centroids")
    /\ \/ /\ open_files' = open_files \cup {"centroids"}
          /\ centroids_file' = <<>>
          /\ pc' = Following("open_centroids")
          /\ UNCHANGED <<error, failed_at>>
       \/ /\ error' = "IOError"
          /\ failed_at' = "open_centroids"
          /\ pc' = Propagate("open_centroids")
          /\ UNCHANGED <<open_files, centroids_file>>
    /\ UNCHANGED <<args, rng, limits, i, mean, sigma, num_points, cur,
                   px, clusters, ground_truth, points, centroids, points_file,
                   console, plotted, run_no, prev_output>>

\* write_points_to_file(centroids, file)
WriteCentroids ==
    /\ pc = "write_centroids"
    /\ trace' = Log("write_centroids")
    /\ \/ /\ centroids_file' = write_points_to_file(centroids)
          /\ pc' = Following("write_centroids")
          /\ UNCHANGED <<error, failed_at, open_files>>
       \/ /\ \E k \in 0..Len(centroids) :
                centroids_file' = SubSeq(write_points_to_file(centroids), 1, k)
          /\ open_files' = open_files \ {"centroids"}
          /\ error' = "IOError"
          /\ failed_at' = "write_centroids"
          /\ pc' = Propagate("write_centroids")
    /\ UNCHANGED <<args, rng, limits, i, mean, sigma, num_points, cur,
                   px, clusters, ground_truth, points, centroids, points_file,
                   console, plotted, run_no, prev_output>>

\* end of the second with block: the centroids file is closed
CloseCentroidsFile ==
    /\ pc = "close_centroids"
    /\ open_files' = open_files \ {"centroids"}
    /\ trace' = Log("close_centroids")
    /\ pc' = Following("close_centroids")
    /\ UNCHANGED <<args, rng, error, failed_at, limits, i, mean,
                   sigma, num_points, cur, px, clusters, ground_truth, points,
                   centroids, points_file, centroids_file, console, plotted,
                   run_no, prev_output>>

\* print_parameters(args)
PrintParameters ==
    /\ pc = "print_parameters"
    /\ console' = Append(console, <<"parameters", args>>)
    /\ trace' = Log("print_parameters")
    /\ pc' = Following("print_parameters")
    /\ UNCHANGED <<args, rng, error, failed_at, limits, i, mean,
                   sigma, num_points, cur, px, clusters, ground_truth, points,
                   centroids, points_file, centroids_file, open_files,
                   plotted, run_no, prev_output>>

\* print_ground_truth(ground_truth)
PrintGroundTruth ==
    /\ pc = "print_ground_truth"
    /\ console' = Append(console, <<"ground_truth", ground_truth>>)
    /\ trace' = Log("print_ground_truth")
    /\ pc' = Following("print_ground_truth")
    /\ UNCHANGED <<args, rng, error, failed_at, limits, i, mean,
                   sigma, num_points, cur, px, clusters, ground_truth, points,
                   centroids, points_file, centroids_file, open_files,
                   plotted, run_no, prev_output>>

\* show_plot(points, centroids, title): returns at once if pyplot is None.
\* Whether the import of matplotlib succeeded is read here and nowhere else,
\* so its outcome is chosen here.
ShowPlot ==
    /\ pc = "show_plot"
    /\ \E pyplot \in BOOLEAN : plotted' = pyplot
    /\ trace' = Log("show_plot")
    /\ pc' = Following("show_plot")
    /\ UNCHANGED <<args, rng, error, failed_at, limits, i, mean,
                   sigma, num_points, cur, px, clusters, ground_truth, points,
                   centroids, points_file, centroids_file, open_files,
                   console, run_no, prev_output>>

\* The same command line is run once more, as a new process: the files on
\* disk stay, the memory is fresh and the random source is unseeded.
Rerun ==
    /\ pc = "done"
    /\ run_no = 1
    /\ run_no' = 2
    /\ prev_output' = [ok |-> TRUE, points |-> points_file,
                       centroids |-> centroids_file]
    /\ rng' \in Entropy
    /\ pc' = "seed"
    /\ error' = "none"
    /\ failed_at' = "none"
    /\ limits' = NoLimits
    /\ i' = 0
    /\ mean' = <<0, 0>>
    /\ sigma' = 0
    /\ num_points' = 0
    /\ cur' = <<>>
    /\ px' = 0
    /\ clusters' = <<>>
    /\ ground_truth' = <<>>
    /\ points' = <<>>
    /\ centroids' = <<>>
    /\ open_files' = {}
    /\ console' = <<>>
    /\ plotted' = FALSE
    /\ trace' = <<>>
    /\ UNCHANGED <<args, points_file, centroids_file>>

Next ==
    \/ Seed
    \/ CallGenerateClusters
    \/ LoopHead
    \/ DrawMeanX
    \/ DrawMeanY
    \/ DrawSigma
    \/ DrawNumPoints
    \/ GaussX
    \/ GaussY
    \/ AppendCluster
    \/ FlattenClusters
    \/ OpenPointsFile
    \/ WritePoints
    \/ ClosePointsFile
    \/ OpenCentroidsFile
    \/ WriteCentroids
    \/ CloseCentroidsFile
    \/ PrintParameters
    \/ PrintGroundTruth
    \/ ShowPlot
    \/ Rerun

Spec == Init /\ [][Next]_vars

\* ------------------------------------------------------------ views of the log
\* TRUE once statement op of run() has been executed by this process.
Started(op) == \E k \in 1..Len(trace) : trace[k].op = op /\ trace[k].cluster = 0

\* The statements of run() executed so far, in order.
Statements ==
    LET IsStatement(e) == e.cluster = 0
        sel == SelectSeq(trace, IsStatement)
    IN  [k \in 1..Len(sel) |-> sel[k].op]

\* How many times statement op has been executed by this process.
Count(op) == Cardinality({k \in 1..Len(trace) : trace[k].op = op /\ trace[k].cluster = 0})

\* The draws made for cluster c, in order.
DrawsOf(c) ==
    LET OfCluster(e) == e.cluster = c
    IN  SelectSeq(trace, OfCluster)

\* The raw values of the draws of kind op made for cluster c, in order.
RawOf(c, op) ==
    LET Wanted(e) == e.cluster = c /\ e.op = op
        sel == SelectSeq(trace, Wanted)
    IN  [k \in 1..Len(sel) |-> sel[k].raw]

Max(a, b) == IF a >= b THEN a ELSE b
Abs(a) == IF a >= 0 THEN a ELSE -a

IsPrefix(s, t) == Len(s) <= Len(t) /\ \A k \in 1..Len(s) : s[k] = t[k]

\* Sum of the 'n' fields of the first k ground-truth records.
RECURSIVE SumN(_, _)
SumN(gt, k) == IF k = 0 THEN 0 ELSE SumN(gt, k - 1) + gt[k].n

\* ------------------------------------------------------------ claims

\* C1: for each of the four min/max pairs the limits run() passes to
\* generate_clusters are (min(a,b), max(a,b)) of the two given values, so a
\* pair given out of order is swapped.
C1_LimitsAreMinAndMax ==
    Started("generate") =>
        /\ limits.min_points = Min(args.min_points, args.max_points)
        /\ limits.max_points = Max(args.min_points, args.max_points)
        /\ limits.min_x = Min(args.min_x, args.max_x)
        /\ limits.max_x = Max(args.min_x, args.max_x)
        /\ limits.min_y = Min(args.min_y, args.max_y)
        /\ limits.max_y = Max(args.min_y, args.max_y)
        /\ limits.min_sigma = Min(args.min_sigma, args.max_sigma)
        /\ limits.max_sigma = Max(args.min_sigma, args.max_sigma)

\* C2: with num_clusters >= 0, once run() has flattened the clusters, the
\* length of the flat point list is the sum of the 'n' fields of the
\* ground-truth records, and the flat list is the clusters' point lists
\* one after the other in generation order: the j-th point of cluster c is
\* at position (sum of the n of the clusters before c) + j.
C2_FlatListIsConcatenation ==
    (Started("flatten") /\ args.num_clusters >= 0) =>
        /\ Len(points) = SumN(ground_truth, Len(ground_truth))
        /\ \A c \in 1..Len(clusters) : \A j \in 1..Len(clusters[c]) :
              /\ SumN(ground_truth, c - 1) + j <= Len(points)
              /\ points[SumN(ground_truth, c - 1) + j] = clusters[c][j]

\* C2 witness: two clusters were flattened, each with a point, and the two
\* points differ.
C2_Witness ==
    /\ Started("flatten")
    /\ Len(clusters) = 2
    /\ Len(clusters[1]) >= 1
    /\ Len(clusters[2]) >= 1
    /\ clusters[1][1] # clusters[2][1]

\* C3: with num_clusters >= 1, generate_clusters returns exactly num_clusters
\* ground-truth records, the c-th holding the mean and sigma drawn for the
\* c-th cluster and the length of its point list, and the centroids file
\* written from them has exactly num_clusters lines, the c-th being the mean
\* of the c-th record.
C3_OneRecordPerCluster ==
    args.num_clusters >= 1 =>
        /\ Started("return") =>
              /\ Len(ground_truth) = args.num_clusters
              /\ Len(clusters) = args.num_clusters
              /\ \A c \in 1..Len(ground_truth) :
                    /\ ground_truth[c].mean = <<RawOf(c, "mean_x")[1], RawOf(c, "mean_y")[1]>>
                    /\ ground_truth[c].sigma = RawOf(c, "sigma")[1]
                    /\ ground_truth[c].n = Len(clusters[c])
        /\ Started("close_centroids") =>
              /\ Len(centroids_file) = args.num_clusters
              /\ \A c \in 1..Len(centroids_file) :
                    centroids_file[c] = join(ground_truth[c].mean)

\* C3 witness: the centroids file of a run with two clusters of different
\* means has been written and closed.
C3_Witness ==
    /\ Started("close_centroids")
    /\ args.num_clusters = 2
    /\ Len(centroids_file) = 2
    /\ centroids_file[1] # centroids_file[2]

\* C4: with non-negative point bounds, every ground-truth record has its n
\* between min and max of the two point arguments, its mean between min and
\* max of the x and of the y arguments, and its sigma between min and max of
\* the sigma arguments, in whichever order the arguments were given.
C4_RecordedValuesWithinRanges ==
    (args.min_points >= 0 /\ args.max_points >= 0) =>
        \A c \in 1..Len(ground_truth) :
            /\ ground_truth[c].n >= Min(args.min_points, args.max_points)
            /\ ground_truth[c].n <= Max(args.min_points, args.max_points)
            /\ ground_truth[c].mean[1] >= Min(args.min_x, args.max_x)
            /\ ground_truth[c].mean[1] <= Max(args.min_x, args.max_x)
            /\ ground_truth[c].mean[2] >= Min(args.min_y, args.max_y)
            /\ ground_truth[c].mean[2] <= Max(args.min_y, args.max_y)
            /\ ground_truth[c].sigma >= Min(args.min_sigma, args.max_sigma)
            /\ ground_truth[c].sigma <= Max(args.min_sigma, args.max_sigma)

\* C4 witness: a cluster was recorded in a run whose four pairs were all
\* given out of order, with non-negative point bounds.
C4_Witness ==
    /\ Len(ground_truth) >= 1
    /\ args.max_points >= 0
    /\ args.min_points > args.max_points
    /\ args.min_x > args.max_x
    /\ args.min_y > args.max_y
    /\ args.min_sigma > args.max_sigma

\* The centroids file as this process found it on disk.
CentroidsFileAtStart == IF run_no = 1 THEN <<>> ELSE prev_output.centroids

\* C5: if opening or writing the points file fails, run() ends with the
\* error and nothing further happens: the centroids file is neither opened
\* nor written, nothing is printed and nothing is plotted.  If the centroids
\* file fails, run() ends likewise with nothing printed or plotted.  Neither
\* file is opened or written a second time.
C5_FailureAbortsPipeline ==
    /\ error # "none" => (pc = "failed" /\ ~ENABLED Next)
    /\ failed_at \in {"open_points", "write_points"} =>
          /\ error = "IOError"
          /\ ~Started("open_centroids")
          /\ ~Started("write_centroids")
          /\ open_files = {}
          /\ centroids_file = CentroidsFileAtStart
          /\ console = <<>>
          /\ ~plotted
          /\ ~Started("print_parameters")
          /\ ~Started("print_ground_truth")
          /\ ~Started("show_plot")
    /\ failed_at \in {"open_centroids", "write_centroids"} =>
          /\ error = "IOError"
          /\ open_files = {}
          /\ console = <<>>
          /\ ~plotted
          /\ ~Started("print_parameters")
          /\ ~Started("print_ground_truth")
          /\ ~Started("show_plot")
    /\ \A op \in {"open_points", "write_points", "open_centroids", "write_centroids"} :
          Count(op) <= 1

\* C5 witness: the second process failed while writing the points file, with
\* the centroids file of the first process still on disk.
C5_Witness ==
    /\ failed_at = "write_points"
    /\ run_no = 2
    /\ Len(centroids_file) >= 1
    /\ Len(points) >= 1

\* C5 second case, reached: the centroids file failed.
C5_WitnessCentroids == failed_at \in {"open_centroids", "write_centroids"}

\* The statements of a complete run, in the order claimed.
ClaimedOrder ==
    <<"seed", "generate", "return", "flatten",
      "open_points", "write_points", "close_points",
      "open_centroids", "write_centroids", "close_centroids",
      "print_parameters", "print_ground_truth", "show_plot">>

\* C6: the statements of run() happen in the order seed, sample, write the
\* points file, write the centroids file, print parameters, print ground
\* truth, plot: every draw is made after the seeding and before the sampling
\* returns, no file is open before the sampling has returned, the points
\* file is closed before the centroids file is opened, and the parameters are
\* printed before the ground truth.
C6_StrictPipelineOrder ==
    /\ IsPrefix(Statements, ClaimedOrder)
    /\ pc = "done" => Statements = ClaimedOrder
    /\ \A k \in 1..Len(trace) : trace[k].cluster # 0 =>
          /\ \E j \in 1..(k - 1) : trace[j].op = "generate"
          /\ \A j \in 1..(k - 1) : trace[j].op # "return"
    /\ open_files # {} => Started("return") /\ Len(clusters) = Max(0, args.num_clusters)
    /\ open_files \in {{}, {"points"}, {"centroids"}}
    /\ "centroids" \in open_files => Started("close_points")
    /\ Started("open_centroids") => Started("close_points")
    /\ Len(console) = 2 => (console[1][1] = "parameters" /\ console[2][1] = "ground_truth")
    /\ Len(console) = 1 => console[1][1] = "parameters"
    /\ console # <<>> => Started("close_centroids")
    /\ plotted => Len(console) = 2

\* C6 witness: a run that sampled points and wrote them reached its end.
C6_Witness ==
    /\ pc = "done"
    /\ plotted
    /\ Len(points_file) >= 2

\* C7: the second process, run with the same seed and configuration but
\* started from different entropy, leaves the same points file and the same
\* centroids file as the first; each process seeds the random source exactly
\* once, before any draw.
C7_SameSeedSameFiles ==
    /\ (run_no = 2 /\ pc = "done") =>
          /\ prev_output.ok
          /\ points_file = prev_output.points
          /\ centroids_file = prev_output.centroids
    /\ Count("seed") <= 1
    /\ trace # <<>> => trace[1].op = "seed"

\* C7 witness: the second process completed, with points on file.
C7_Witness ==
    /\ run_no = 2
    /\ pc = "done"
    /\ Len(points_file) >= 2
    /\ Len(centroids_file) >= 2

\* The kind of the k-th draw of a cluster whose parameter draws come in the
\* given order: the four parameters, then x and y of each point in turn.
ExpectedKind(order, k) ==
    IF k <= Len(order) THEN order[k]
    ELSE IF (k - Len(order)) % 2 = 1 THEN "gauss_x" ELSE "gauss_y"

\* The draws of every cluster come in the given order, cluster after cluster.
DrawsFollow(order) ==
    /\ \A c \in 1..i : \A k \in 1..Len(DrawsOf(c)) :
          DrawsOf(c)[k].op = ExpectedKind(order, k)
    /\ \A j, k \in 1..Len(trace) :
          (j < k /\ trace[j].cluster # 0 /\ trace[k].cluster # 0)
              => trace[j].cluster <= trace[k].cluster

\* C8 as stated: in each cluster iteration point_count is drawn first, then
\* the center x, the center y and sigma, and then the points, x before y;
\* no draw of one cluster is interleaved with a draw of another.
C8_PointCountDrawnFirst ==
    DrawsFollow(<<"num_points", "mean_x", "mean_y", "sigma">>)

\* C8 amended: in each cluster iteration the center x is drawn first, then
\* the center y, then sigma, then point_count, and then the points, x before
\* y; a finished cluster has drawn exactly max(point_count, 0) points; no
\* draw of one cluster is interleaved with a draw of another.
C8_PointCountDrawnFourth ==
    /\ DrawsFollow(<<"mean_x", "mean_y", "sigma", "num_points">>)
    /\ \A c \in 1..Len(clusters) :
          /\ Len(RawOf(c, "gauss_x")) = Max(0, RawOf(c, "num_points")[1])
          /\ Len(RawOf(c, "gauss_y")) = Max(0, RawOf(c, "num_points")[1])

\* C8 witness: the second cluster has drawn its parameters and a point.
C8_Witness ==
    /\ i = 2
    /\ Len(DrawsOf(2)) >= 6
    /\ Len(DrawsOf(1)) >= 6

\* c is v truncated toward zero (v fixed-point).
TruncatedTowardZero(c, v) ==
    /\ Abs(c) * Scale <= Abs(v)
    /\ Abs(v) < (Abs(c) + 1) * Scale
    /\ c = 0 \/ (c > 0 /\ v > 0) \/ (c < 0 /\ v < 0)

\* C9: every stored coordinate is the sampled Gaussian value truncated toward
\* zero: |c| <= |v| < |c| + 1, and c is 0 or has the sign of v.
C9_TruncationTowardZero ==
    /\ \A c \in 1..Len(clusters) : \A j \in 1..Len(clusters[c]) :
          /\ TruncatedTowardZero(clusters[c][j][1], RawOf(c, "gauss_x")[j])
          /\ TruncatedTowardZero(clusters[c][j][2], RawOf(c, "gauss_y")[j])
    /\ \A j \in 1..Len(cur) :
          /\ TruncatedTowardZero(cur[j][1], RawOf(i, "gauss_x")[j])
          /\ TruncatedTowardZero(cur[j][2], RawOf(i, "gauss_y")[j])

\* C9 witness: a stored point came from a negative sample below -1 that is
\* not a whole number (truncation and flooring differ on it).
C9_Witness ==
    /\ Len(clusters) >= 1
    /\ Len(clusters[1]) >= 1
    /\ \E v \in {RawOf(1, "gauss_x")[1], RawOf(1, "gauss_y")[1]} :
          v < -Scale /\ v % Scale # 0

\* C10: generation never raises: whatever the order of the min/max
\* arguments, every randint of generate_clusters is called with lower bound
\* <= upper bound and no ValueError ends the run, and a cluster whose drawn
\* point_count is negative is an empty cluster.
C10_GenerationNeverRaises ==
    /\ error # "ValueError"
    /\ failed_at # "generate"
    /\ Started("generate") =>
          /\ limits.min_x <= limits.max_x
          /\ limits.min_y <= limits.max_y
          /\ limits.min_points <= limits.max_points
    /\ \A c \in 1..Len(clusters) :
          RawOf(c, "num_points")[1] < 0 =>
              (clusters[c] = <<>> /\ ground_truth[c].n = 0)

\* C10 witness: generate_clusters returned two clusters, one of them drawn
\* with a negative point_count, from arguments given out of order.
C10_Witness ==
    /\ Started("return")
    /\ Len(clusters) = 2
    /\ \E c \in 1..2 : RawOf(c, "num_points")[1] < 0
    /\ args.min_points > args.max_points
    /\ args.min_x > args.max_x
    /\ args.min_y > args.max_y

====
